---- MODULE Spec2Model ----
\* A model of the CSV import dialog (ImportCsvDialog.cpp): the file picker of a
\* multi-file batch, schema inference, header matching and the per-file import
\* transaction (savepoint, table creation, prepared insert, row loop, rollback).
\*
\* Strings are sequences of one-character strings, so that character stripping
\* and name synthesis are computed rather than assumed. A CSV file is the
\* sequence of rows the tokenizer yields for it, a row a sequence of strings.
EXTENDS Integers, Sequences, FiniteSets, TLC

\* ---------------------------------------------------------------- bounds
MaxFiles == 2       \* files handed to the dialog
MaxRows  == 2       \* rows in all the files of one batch together
MaxBeyond == 1      \* rows a long file has beyond the sample window

\* ---------------------------------------------------------------- strings
E    == <<>>                    \* the empty, non-null QString ""
Null == << "<null>" >>          \* the null QString(): no character, tells NULL from ""
A    == << "a" >>
B    == << "b" >>
C    == << "c" >>
ASp  == << "a", " " >>          \* "a " : equals "a" once the blank is stripped

isEmpty(s) == s = E \/ s = Null
isNull(s)  == s = Null

Digits == << "0", "1", "2", "3", "4", "5", "6", "7", "8", "9" >>

RECURSIVE number(_)
number(n) == IF n < 10 THEN << Digits[n + 1] >>
             ELSE number(n \div 10) \o << Digits[(n % 10) + 1] >>

\* The backtick character. It is written by name: a backtick inside a string
\* literal opens a quotation that runs to the next apostrophe.
Backtick == "BACKTICK"

\* removeInvalid, mutated: the semicolon is not removed.
removeInvalid_keepsSemicolon(s) ==
    SelectSeq(s, LAMBDA ch : ch \notin { Backtick, " ", "\"", "'", "," })

\* QString::replace(c, "") for each of the six characters
InvalidChars == { Backtick, " ", "\"", "'", ",", ";" }
removeInvalid(s) == SelectSeq(s, LAMBDA ch : ch \notin InvalidChars)

\* QFileInfo(fileName).baseName() of the i-th file handed to the dialog
baseName(i) == << "f" >> \o number(i)

\* ---------------------------------------------------------------- inputs
\* The rows a file is made of: two header-like rows that differ in the second
\* name, a row whose first name carries a blank, and a wider row with an empty
\* first field.
RowSet == { << A, B >>, << ASp, C >>, << E, B, C >> }

FilesOfLen(k) == [1..k -> RowSet]
AllFiles == UNION { FilesOfLen(k) : k \in 0..MaxRows }

RECURSIVE totalRows(_)
totalRows(fs) == IF fs = <<>> THEN 0 ELSE Len(Head(fs)) + totalRows(Tail(fs))

Batches == { fs \in UNION { [1..n -> AllFiles] : n \in 1..MaxFiles } :
                totalRows(fs) <= MaxRows }

\* ---------------------------------------------------------------- the store
TableNames == { baseName(i) : i \in 1..MaxFiles }

NoTable == [exists |-> FALSE, cols |-> <<>>, rows |-> <<>>]

Col(n, int, nn) == [name |-> n, isInteger |-> int, notnull |-> nn]

\* A table that is in the store before the dialog opens, with one row in it.
OldTable2 == [exists |-> TRUE,
              cols |-> << Col(A, TRUE, TRUE), Col(B, FALSE, FALSE) >>,
              rows |-> << << << "7" >>, B >> >>]
OldTable3 == [exists |-> TRUE,
              cols |-> << Col(A, TRUE, FALSE), Col(B, FALSE, TRUE), Col(C, FALSE, FALSE) >>,
              rows |-> << << Null, B, C >> >>]

InitialTables == { NoTable, OldTable2, OldTable3 }

\* ---------------------------------------------------------------- state
VARIABLES
    csvFilenames,            \* the files handed to the dialog (their rows)
    checkboxHeader,          \* ui->checkboxHeader
    checkBoxSeparateTables,  \* ui->checkBoxSeparateTables
    editName,                \* ui->editName
    checkState,              \* check state of each file picker item
    userRole,                \* Qt::UserRole of each item: its table name
    currentItem,             \* ui->filePicker->currentItem(), 0 = none
    matchedWith,             \* the reference item of the matchSimilar() whose selection
                             \* stands, 0 when none has run or accept() has taken over
    db,                      \* the store: table name -> table
    savepointList,           \* open savepoints, oldest first
    savepointSeq,            \* savepoint names generated so far
    pc,                      \* position of the dialog / accept() / importCsv()
    cur,                     \* accept(): index of the item being handled
    tableName, fieldList, importToExistingTable, nullValues,
    restorepointName,
    stmt,                    \* "none" | "prepared" | "null" | "finalized"
    bindings,                \* value bound to each placeholder, Null = unbound
    rowNum,                  \* tokenizer: index of the next row
    lastRowNum,
    result,                  \* ParserResult of the full parse
    sink,                    \* calls received by the progress sink for this file
    log,                     \* store and statement calls of this file's import
    shown,                   \* message boxes shown by this file's import
    preDb,                   \* the store when this file's import started
    outcomes                 \* one entry per importCsv() call that returned

dialogVars == << csvFilenames, checkboxHeader, checkBoxSeparateTables, editName,
                 checkState, userRole, currentItem, matchedWith >>
storeVars  == << db, savepointList, savepointSeq >>
localVars  == << tableName, fieldList, importToExistingTable, nullValues,
                 restorepointName, stmt, bindings, rowNum, lastRowNum, result >>
histVars   == << sink, log, shown, preDb >>
vars == << dialogVars, storeVars, pc, cur, localVars, histVars, outcomes >>

nFiles == Len(csvFilenames)

\* ui->filePickerBlock->isVisible(): set by the constructor for several files
filePickerBlockVisible == nFiles > 1

\* ---------------------------------------------------------------- tokenizer
\* CSVParser::parse with a row limit (count >= 0): the rows the callback is
\* handed, row index 0 first. No progress sink is attached in this mode.
SampleLimit == 20

sampledRows(file, count) == SubSeq(file, 1, IF Len(file) < count THEN Len(file) ELSE count)

\* progressAttached, mutated: every parse gets a progress sink.
progressAttached_always(count) == TRUE

\* parseCSV() attaches a progress sink only to a parse of all rows (count = -1).
progressAttached(count) == count = -1

\* The calls the sink receives from a parse with a row limit that goes through
\* its rows: none, unless a sink is attached.
boundedParseSink(file, count) ==
    IF progressAttached(count)
    THEN << "start" >> \o [k \in 1..Len(sampledRows(file, count)) |-> "update"] \o << "end" >>
    ELSE <<>>

\* The same for one bounded parse of each of several files, one after the other.
RECURSIVE boundedParsesSink(_, _)
boundedParsesSink(files, count) ==
    IF files = <<>> THEN <<>>
    ELSE boundedParseSink(Head(files), count) \o boundedParsesSink(Tail(files), count)

\* ---------------------------------------------------------------- inference
Field(n) == [name |-> n, type |-> E]

\* extendFieldList, mutated: the list is cut to the width of a narrower row.
RECURSIVE extendFieldList_shrinking(_, _, _, _)
extendFieldList_shrinking(fl, rNum, data, header) ==
    IF Len(fl) >= Len(data) THEN SubSeq(fl, 1, Len(data))
    ELSE LET i         == Len(fl)
             taken     == IF rNum = 0 /\ header THEN removeInvalid(data[i + 1]) ELSE Null
             fieldname == IF isEmpty(taken) THEN << "f", "i", "e", "l", "d" >> \o number(i + 1)
                          ELSE taken
         IN  extendFieldList_shrinking(Append(fl, Field(fieldname)), rNum, data, header)

\* The loop of the inference callback: one field per column the row has beyond
\* the list. i is the code's 0-based column index.
RECURSIVE extendFieldList(_, _, _, _)
extendFieldList(fl, rNum, data, header) ==
    IF Len(fl) >= Len(data) THEN fl
    ELSE LET i         == Len(fl)
             taken     == IF rNum = 0 /\ header THEN removeInvalid(data[i + 1]) ELSE Null
             fieldname == IF isEmpty(taken) THEN << "f", "i", "e", "l", "d" >> \o number(i + 1)
                          ELSE taken
         IN  extendFieldList(Append(fl, Field(fieldname)), rNum, data, header)

RECURSIVE inferFrom(_, _, _, _)
inferFrom(fl, rows, rNum, header) ==
    IF rNum >= Len(rows) THEN fl
    ELSE inferFrom(extendFieldList(fl, rNum, rows[rNum + 1], header), rows, rNum + 1, header)

generateFieldList(file, header) == inferFrom(<<>>, sampledRows(file, SampleLimit), 0, header)

\* ---------------------------------------------------------------- header matching
\* std::equal over the two lists with the name comparison of matchSimilar;
\* called only for lists of equal count.
equalNames(selectedHeader, header) ==
    \A k \in 1..Len(selectedHeader) : selectedHeader[k].name = header[k].name

\* matchingHeader, mutated: the selected list need only be the beginning of
\* the other one.
matchingHeader_prefix(selectedHeader, header) ==
    Len(selectedHeader) <= Len(header) /\ equalNames(selectedHeader, header)

\* The value matchSimilar computes for matchingHeader: the counts are equal and
\* so are the names, position by position.
matchingHeader(selectedHeader, header) ==
    Len(selectedHeader) = Len(header) /\ equalNames(selectedHeader, header)

\* The check state matchSimilar leaves item i in.
matchedState(selectedHeader, header, old) ==
    IF Len(selectedHeader) = Len(header)
    THEN (IF matchingHeader(selectedHeader, header) THEN TRUE ELSE old)
    ELSE FALSE

\* ---------------------------------------------------------------- Init
Init ==
    /\ csvFilenames \in Batches
    /\ checkboxHeader \in BOOLEAN
    /\ checkBoxSeparateTables \in BOOLEAN
    /\ editName = baseName(1)
    /\ checkState = [i \in 1..(IF Len(csvFilenames) > 1 THEN Len(csvFilenames) ELSE 0) |-> TRUE]
    /\ userRole = [i \in 1..(IF Len(csvFilenames) > 1 THEN Len(csvFilenames) ELSE 0) |-> baseName(i)]
    /\ currentItem = 0
    /\ matchedWith = 0
    /\ \E t \in InitialTables :
          db = [n \in TableNames |-> IF n = baseName(1) THEN t ELSE NoTable]
    /\ savepointList = <<>>
    /\ savepointSeq = 0
    /\ pc = "dialog"
    /\ cur = 0
    /\ tableName = E
    /\ fieldList = <<>>
    /\ importToExistingTable = FALSE
    /\ nullValues = <<>>
    /\ restorepointName = E
    /\ stmt = "none"
    /\ bindings = <<>>
    /\ rowNum = 0
    /\ lastRowNum = 0
    /\ result = "none"
    /\ sink = <<>>
    /\ log = <<>>
    /\ shown = <<>>
    /\ preDb = db
    /\ outcomes = <<>>

\* ---------------------------------------------------------------- the dialog
\* checkInput(): stores the table name of the edit field in the current item.
checkInput(role, item, name) ==
    IF item # 0 THEN [role EXCEPT ![item] = name] ELSE role

updateSelection(selected) ==
    /\ pc = "dialog"
    /\ filePickerBlockVisible
    /\ checkState' = [i \in 1..nFiles |-> selected]
    /\ userRole' = checkInput(userRole, currentItem, editName)
    /\ matchedWith' = 0
    /\ UNCHANGED << csvFilenames, checkboxHeader, checkBoxSeparateTables, editName, currentItem >>
    /\ UNCHANGED << storeVars, pc, cur, localVars, histVars, outcomes >>

\* itemClicked(item): the clicked item becomes the current item. updatePreview()
\* parses the file twice with the row limit: for the field list and for the
\* preview rows.
updateSelectedFilePreview(item) ==
    /\ pc = "dialog"
    /\ filePickerBlockVisible
    /\ currentItem' = item
    /\ editName' = IF checkBoxSeparateTables THEN userRole[item] ELSE baseName(item)
    /\ userRole' = checkInput(userRole, item, editName')
    /\ sink' = sink \o boundedParsesSink(<< csvFilenames[item], csvFilenames[item] >>, SampleLimit)
    /\ UNCHANGED << csvFilenames, checkboxHeader, checkBoxSeparateTables, checkState, matchedWith >>
    /\ UNCHANGED << storeVars, pc, cur, localVars, log, shown, preDb, outcomes >>

\* The button is enabled by checkInput() only while there is a current item.
matchSimilar ==
    /\ pc = "dialog"
    /\ filePickerBlockVisible
    /\ currentItem # 0
    /\ LET selectedHeader == generateFieldList(csvFilenames[currentItem], checkboxHeader)
       IN  checkState' = [i \in 1..nFiles |->
                matchedState(selectedHeader,
                             generateFieldList(csvFilenames[i], checkboxHeader),
                             checkState[i])]
    /\ userRole' = checkInput(userRole, currentItem, editName)
    /\ matchedWith' = currentItem
    /\ sink' = sink \o boundedParsesSink(<< csvFilenames[currentItem] >> \o csvFilenames, SampleLimit)
    /\ UNCHANGED << csvFilenames, checkboxHeader, checkBoxSeparateTables, editName, currentItem >>
    /\ UNCHANGED << storeVars, pc, cur, localVars, log, shown, preDb, outcomes >>

\* ---------------------------------------------------------------- store interface
\* DBBrowserDB, used through its interface: savepoints are snapshots of the
\* tables, reverting restores the snapshot and drops the savepoint and all
\* younger ones; a name that is not open reverts nothing.
generateSavepointName(seq) == << "c", "s", "v", "i", "m", "p", "o", "r", "t", "_" >> \o number(seq)

savepointIndex(list, name) ==
    LET hits == { k \in 1..Len(list) : list[k].name = name }
    IN  IF hits = {} THEN 0 ELSE CHOOSE k \in hits : \A j \in hits : j <= k

setSavepoint(list, d, name) == Append(list, [name |-> name, snap |-> d])

revertToSavepoint(list, d, name) ==
    LET k == savepointIndex(list, name)
    IN  IF k = 0 THEN [db |-> d, list |-> list]
        ELSE [db |-> list[k].snap, list |-> SubSeq(list, 1, k - 1)]

\* The table createTable makes of a field list: the fields carry the empty
\* type, so no column is an integer column and none is NOT NULL.
createTable(d, name, fl) ==
    [d EXCEPT ![name] = [exists |-> TRUE,
                         cols |-> [k \in 1..Len(fl) |-> Col(fl[k].name, FALSE, FALSE)],
                         rows |-> <<>>]]

insertRow(d, name, row) == [d EXCEPT ![name].rows = Append(@, row)]

Call(op, arg, ok) == [op |-> op, arg |-> arg, ok |-> ok]

\* ---------------------------------------------------------------- accept()
\* importCsv() returns to accept(): to the loop over the items, or, for a
\* single file, to the end of accept().
Return(outcome, dbAfter) ==
    /\ outcomes' = Append(outcomes, [file |-> cur, outcome |-> outcome, dbAfter |-> dbAfter])
    /\ IF filePickerBlockVisible
       THEN pc' = "loop" /\ cur' = cur + 1
       ELSE pc' = "done" /\ cur' = cur

accept ==
    /\ pc = "dialog"
    /\ IF filePickerBlockVisible THEN pc' = "loop" ELSE pc' = "import"
    /\ cur' = 1
    /\ matchedWith' = 0
    /\ UNCHANGED << csvFilenames, checkboxHeader, checkBoxSeparateTables, editName,
                    checkState, userRole, currentItem >>
    /\ UNCHANGED << storeVars, localVars, histVars, outcomes >>

\* One turn of the loop over the file picker items.
acceptLoop ==
    /\ pc = "loop"
    /\ IF cur > nFiles THEN pc' = "done" /\ cur' = cur
       ELSE IF checkState[cur] THEN pc' = "import" /\ cur' = cur
       ELSE pc' = "loop" /\ cur' = cur + 1
    /\ UNCHANGED << dialogVars, storeVars, localVars, histVars, outcomes >>

\* ---------------------------------------------------------------- rollback(), mutated
\* rollback() that shows the message but never reverts the store.
rollback_noRevert(savepointName, nRecord, message, lg) ==
    /\ shown' = IF message # ""
                THEN Append(shown, [box |-> "warning", text |-> "Error importing data",
                                    nRecord |-> nRecord, message |-> message])
                ELSE shown
    /\ UNCHANGED << db, savepointList >>
    /\ log' = lg

\* rollback() that reverts to the oldest open savepoint instead of the named one.
rollback_oldest(savepointName, nRecord, message, lg) ==
    LET oldest == IF savepointList = <<>> THEN savepointName ELSE savepointList[1].name
        r      == revertToSavepoint(savepointList, db, oldest)
    IN  /\ shown' = IF message # ""
                    THEN Append(shown, [box |-> "warning", text |-> "Error importing data",
                                        nRecord |-> nRecord, message |-> message])
                    ELSE shown
        /\ db' = r.db
        /\ savepointList' = r.list
        /\ log' = Append(lg, Call("revertToSavepoint", oldest, TRUE))

\* ---------------------------------------------------------------- rollback()
\* The message box is shown only for a non-empty message and names the record
\* only for a non-zero record number (nRecord = 0 in a box: no number shown).
rollback(savepointName, nRecord, message, lg) ==
    LET r == revertToSavepoint(savepointList, db, savepointName)
    IN  /\ shown' = IF message # ""
                    THEN Append(shown, [box |-> "warning", text |-> "Error importing data",
                                        nRecord |-> nRecord, message |-> message])
                    ELSE shown
        /\ db' = r.db
        /\ savepointList' = r.list
        /\ log' = Append(lg, Call("revertToSavepoint", savepointName, TRUE))

\* ---------------------------------------------------------------- importCsv()
\* importCsv_analyse, mutated: an empty field list does not end the import.
importCsv_analyse_noEmptyCheck ==
    /\ pc = "import"
    /\ LET name == IF filePickerBlockVisible THEN userRole[cur] ELSE Null
       IN  tableName' = IF nFiles > 1 /\ checkBoxSeparateTables
                        THEN (IF isEmpty(name) THEN baseName(cur) ELSE name)
                        ELSE editName
    /\ fieldList' = generateFieldList(csvFilenames[cur], checkboxHeader)
    /\ importToExistingTable' = FALSE
    /\ nullValues' = <<>>
    /\ restorepointName' = E
    /\ stmt' = "none"
    /\ bindings' = <<>>
    /\ rowNum' = 0
    /\ lastRowNum' = 0
    /\ result' = "none"
    /\ sink' = boundedParseSink(csvFilenames[cur], SampleLimit)
    /\ log' = <<>>
    /\ shown' = <<>>
    /\ preDb' = db
    /\ pc' = "resolve"
    /\ UNCHANGED << cur, outcomes >>
    /\ UNCHANGED << dialogVars, storeVars >>

\* Table name and schema inference; an empty field list ends the import.
importCsv_analyse ==
    /\ pc = "import"
    /\ LET name == IF filePickerBlockVisible THEN userRole[cur] ELSE Null
       IN  tableName' = IF nFiles > 1 /\ checkBoxSeparateTables
                        THEN (IF isEmpty(name) THEN baseName(cur) ELSE name)
                        ELSE editName
    /\ fieldList' = generateFieldList(csvFilenames[cur], checkboxHeader)
    /\ importToExistingTable' = FALSE
    /\ nullValues' = <<>>
    /\ restorepointName' = E
    /\ stmt' = "none"
    /\ bindings' = <<>>
    /\ rowNum' = 0
    /\ lastRowNum' = 0
    /\ result' = "none"
    /\ sink' = boundedParseSink(csvFilenames[cur], SampleLimit)
    /\ log' = <<>>
    /\ shown' = <<>>
    /\ preDb' = db
    /\ IF Len(fieldList') = 0
       THEN Return("EmptySource", db)
       ELSE pc' = "resolve" /\ UNCHANGED << cur, outcomes >>
    /\ UNCHANGED << dialogVars, storeVars >>

\* The column check, mutated: a table wider than the field list is accepted.
columnsMatch_atLeast(obj, fl) == Len(obj.cols) >= Len(fl)

\* An import into an existing table is only possible if the numbers of columns match.
columnsMatch(obj, fl) == Len(obj.cols) = Len(fl)

\* Are we importing into an existing table?
importCsv_resolve ==
    /\ pc = "resolve"
    /\ LET obj == db[tableName]
       IN  IF obj.exists
           THEN IF ~columnsMatch(obj, fieldList)
                THEN /\ shown' = Append(shown, [box |-> "warning", text |-> "column count",
                                                nRecord |-> 0, message |-> ""])
                     /\ Return("ColumnMismatch", db)
                     /\ UNCHANGED importToExistingTable
                ELSE \E answer \in { "Yes", "No" } :
                     /\ shown' = Append(shown, [box |-> "question", text |-> "import into it?",
                                                nRecord |-> 0, message |-> answer])
                     /\ IF answer = "Yes"
                        THEN /\ importToExistingTable' = TRUE
                             /\ pc' = "savepoint"
                             /\ UNCHANGED << cur, outcomes >>
                        ELSE /\ importToExistingTable' = ~checkBoxSeparateTables
                             /\ Return("Declined", db)
           ELSE /\ pc' = "savepoint"
                /\ UNCHANGED << cur, outcomes, shown, importToExistingTable >>
    /\ UNCHANGED << dialogVars, storeVars, tableName, fieldList, nullValues, restorepointName,
                    stmt, bindings, rowNum, lastRowNum, result, sink, log, preDb >>

\* Create a savepoint; the store may reject it.
importCsv_savepoint ==
    /\ pc = "savepoint"
    /\ restorepointName' = generateSavepointName(savepointSeq)
    /\ savepointSeq' = savepointSeq + 1
    /\ \E ok \in BOOLEAN :
          LET lg == Append(log, Call("setSavepoint", restorepointName', ok))
          IN  IF ok
              THEN /\ savepointList' = setSavepoint(savepointList, db, restorepointName')
                   /\ log' = lg
                   /\ pc' = "table"
                   /\ UNCHANGED << db, shown, cur, outcomes >>
              ELSE /\ rollback(restorepointName', 0, "Creating restore point failed", lg)
                   /\ Return("Failed", db')
    /\ UNCHANGED << dialogVars, tableName, fieldList, importToExistingTable, nullValues,
                    stmt, bindings, rowNum, lastRowNum, result, sink, preDb >>

\* nullValueFor, mutated: every NOT NULL column gets "0", integer or not.
nullValueFor_anyNotNull(f) ==
    IF f.notnull THEN << "0" >>
    ELSE IF f.isInteger THEN Null
    ELSE E

\* The value inserted for an empty field of each column of the existing table.
nullValueFor(f) ==
    IF f.isInteger /\ f.notnull THEN << "0" >>
    ELSE IF f.isInteger /\ ~f.notnull THEN Null
    ELSE E

\* importCsv_table, mutated: a failed table creation is not noticed.
importCsv_table_ignoringFailure ==
    /\ pc = "table"
    /\ IF ~importToExistingTable
       THEN \E ok \in BOOLEAN :
              /\ db' = IF ok THEN createTable(db, tableName, fieldList) ELSE db
              /\ log' = Append(log, Call("createTable", tableName, ok))
              /\ pc' = "prepare"
              /\ UNCHANGED << nullValues, savepointList, shown, cur, outcomes >>
       ELSE /\ nullValues' = [k \in 1..Len(db[tableName].cols) |-> nullValueFor(db[tableName].cols[k])]
            /\ pc' = "prepare"
            /\ UNCHANGED << db, savepointList, log, shown, cur, outcomes >>
    /\ UNCHANGED << dialogVars, savepointSeq, tableName, fieldList, importToExistingTable,
                    restorepointName, stmt, bindings, rowNum, lastRowNum, result, sink, preDb >>

\* Create the table, or look at the structure of the existing one.
importCsv_table ==
    /\ pc = "table"
    /\ IF ~importToExistingTable
       THEN \E ok \in BOOLEAN :
              LET lg == Append(log, Call("createTable", tableName, ok))
              IN  IF ok
                  THEN /\ db' = createTable(db, tableName, fieldList)
                       /\ log' = lg
                       /\ pc' = "prepare"
                       /\ UNCHANGED << nullValues, savepointList, shown, cur, outcomes >>
                  ELSE /\ rollback(restorepointName, 0, "Creating the table failed", lg)
                       /\ Return("Failed", db')
                       /\ UNCHANGED nullValues
       ELSE /\ nullValues' = [k \in 1..Len(db[tableName].cols) |-> nullValueFor(db[tableName].cols[k])]
            /\ pc' = "prepare"
            /\ UNCHANGED << db, savepointList, log, shown, cur, outcomes >>
    /\ UNCHANGED << dialogVars, savepointSeq, tableName, fieldList, importToExistingTable,
                    restorepointName, stmt, bindings, rowNum, lastRowNum, result, sink, preDb >>

\* Prepare the INSERT statement with one placeholder ?i per field. The status
\* of the preparation is not looked at; a failed one leaves a null statement.
importCsv_prepare ==
    /\ pc = "prepare"
    /\ \E ok \in BOOLEAN :
          /\ stmt' = IF ok THEN "prepared" ELSE "null"
          /\ bindings' = IF ok THEN [k \in 1..Len(fieldList) |-> Null] ELSE <<>>
          /\ log' = Append(log, Call("prepare", number(Len(fieldList)), ok))
    /\ pc' = "parse"
    /\ UNCHANGED << dialogVars, storeVars, cur, tableName, fieldList, importToExistingTable,
                    nullValues, restorepointName, rowNum, lastRowNum, result, sink, shown,
                    preDb, outcomes >>

\* ---------------------------------------------------------------- the row callback
\* sqlite3_bind_text(stmt, k, ...): binds placeholder k of a prepared statement;
\* on a null statement or an index out of range it returns an error status,
\* which the callback does not look at, and binds nothing.
bindable(b, k) == stmt = "prepared" /\ k \in 1..Len(b)

bindText(b, k, val) == IF bindable(b, k) THEN [b EXCEPT ![k] = val] ELSE b

\* The binding loop over the fields of one row, from the 0-based index i on:
\* the bindings and the log it ends with.
RECURSIVE bindFields(_, _, _, _)
bindFields(b, lg, data, i) ==
    IF i >= Len(data) THEN [bindings |-> b, log |-> lg]
    ELSE IF importToExistingTable /\ isEmpty(data[i + 1]) /\ Len(nullValues) > i
         THEN LET val == nullValues[i + 1]
              IN  IF ~isNull(val)
                  THEN bindFields(bindText(b, i + 1, val),
                                  Append(lg, Call("bind", i + 1, bindable(b, i + 1))), data, i + 1)
                  ELSE bindFields(b, lg, data, i + 1)
         ELSE bindFields(bindText(b, i + 1, data[i + 1]),
                         Append(lg, Call("bind", i + 1, bindable(b, i + 1))), data, i + 1)

\* sqlite3_clear_bindings
clearBindings(b) == [k \in 1..Len(b) |-> Null]

\* rowFunction, mutated: the bindings are not cleared after a row.
rowFunction_noClear(rNum, data, stepDone) ==
    IF rNum = 0 /\ checkboxHeader
    THEN [ret |-> TRUE, lastRowNum |-> rNum, bindings |-> bindings, log |-> log, db |-> db]
    ELSE LET bound == bindFields(bindings, log, data, 0)
         IN  IF ~stepDone
             THEN [ret |-> FALSE, lastRowNum |-> rNum, bindings |-> bound.bindings,
                   log |-> Append(bound.log, Call("step", rNum, FALSE)), db |-> db]
             ELSE [ret |-> TRUE, lastRowNum |-> rNum,
                   bindings |-> bound.bindings,
                   log |-> bound.log \o << Call("step", rNum, TRUE), Call("reset", rNum, TRUE) >>,
                   db |-> insertRow(db, tableName, bound.bindings)]

\* rowFunction, mutated: row 0 is inserted even if it is the header.
rowFunction_noHeaderSkip(rNum, data, stepDone) ==
    LET bound == bindFields(bindings, log, data, 0)
    IN  IF ~stepDone
        THEN [ret |-> FALSE, lastRowNum |-> rNum, bindings |-> bound.bindings,
              log |-> Append(bound.log, Call("step", rNum, FALSE)), db |-> db]
        ELSE [ret |-> TRUE, lastRowNum |-> rNum,
              bindings |-> clearBindings(bound.bindings),
              log |-> bound.log \o << Call("step", rNum, TRUE), Call("reset", rNum, TRUE),
                                      Call("clear_bindings", rNum, TRUE) >>,
              db |-> insertRow(db, tableName, bound.bindings)]

\* The callback importCsv() hands to the tokenizer for the full parse, called
\* for row rNum with its fields; stepDone says whether sqlite3_step returns
\* SQLITE_DONE. It yields the callback's return value and what it leaves behind.
rowFunction(rNum, data, stepDone) ==
    IF rNum = 0 /\ checkboxHeader
    THEN [ret |-> TRUE, lastRowNum |-> rNum, bindings |-> bindings, log |-> log, db |-> db]
    ELSE LET bound == bindFields(bindings, log, data, 0)
         IN  IF ~stepDone
             THEN [ret |-> FALSE, lastRowNum |-> rNum, bindings |-> bound.bindings,
                   log |-> Append(bound.log, Call("step", rNum, FALSE)), db |-> db]
             ELSE [ret |-> TRUE, lastRowNum |-> rNum,
                   bindings |-> clearBindings(bound.bindings),
                   log |-> bound.log \o << Call("step", rNum, TRUE), Call("reset", rNum, TRUE),
                                           Call("clear_bindings", rNum, TRUE) >>,
                   db |-> insertRow(db, tableName, bound.bindings)]

\* ---------------------------------------------------------------- the full parse
\* The result of a parse whose callback returned false.
callbackStopped == "Cancelled"

\* parseCSV(fileName, rowFunction, -1): a progress sink is attached and started.
parseCSV ==
    /\ pc = "parse"
    /\ sink' = IF progressAttached(-1) THEN Append(sink, "start") ELSE sink
    /\ rowNum' = 0
    /\ pc' = "row"
    /\ UNCHANGED << dialogVars, storeVars, cur, tableName, fieldList, importToExistingTable,
                    nullValues, restorepointName, stmt, bindings, lastRowNum, result, log,
                    shown, preDb, outcomes >>

\* The tokenizer hands the next row to the callback. A null statement makes
\* sqlite3_step fail; a prepared one succeeds or fails as the store decides.
parse_row ==
    /\ pc = "row"
    /\ rowNum < Len(csvFilenames[cur])
    /\ \E stepDone \in (IF stmt = "prepared" THEN BOOLEAN ELSE { FALSE }) :
          LET r == rowFunction(rowNum, csvFilenames[cur][rowNum + 1], stepDone)
          IN  /\ lastRowNum' = r.lastRowNum
              /\ bindings' = r.bindings
              /\ log' = r.log
              /\ db' = r.db
              /\ IF r.ret
                 THEN /\ rowNum' = rowNum + 1
                      /\ pc' = "poll"
                      /\ UNCHANGED << result, sink >>
                 ELSE /\ result' = callbackStopped
                      /\ sink' = Append(sink, "end")
                      /\ pc' = "finish"
                      /\ UNCHANGED rowNum
    /\ UNCHANGED << dialogVars, savepointList, savepointSeq, cur, tableName, fieldList,
                    importToExistingTable, nullValues, restorepointName, stmt, shown, preDb,
                    outcomes >>

\* A progress checkpoint: CSVImportProgress::update returns whether the user
\* has not cancelled; the sink records a cancelling update as "update_false".
parse_poll ==
    /\ pc = "poll"
    /\ \E wasCanceled \in BOOLEAN :
          IF ~wasCanceled
          THEN /\ sink' = Append(sink, "update")
               /\ pc' = "row"
               /\ UNCHANGED result
          ELSE /\ sink' = sink \o << "update_false", "end" >>
               /\ result' = "Cancelled"
               /\ pc' = "finish"
    /\ UNCHANGED << dialogVars, storeVars, cur, tableName, fieldList, importToExistingTable,
                    nullValues, restorepointName, stmt, bindings, rowNum, lastRowNum, log,
                    shown, preDb, outcomes >>

\* The source fails while the tokenizer reads on.
parse_error ==
    /\ pc = "row"
    /\ result' = "Error"
    /\ sink' = Append(sink, "end")
    /\ pc' = "finish"
    /\ UNCHANGED << dialogVars, storeVars, cur, tableName, fieldList, importToExistingTable,
                    nullValues, restorepointName, stmt, bindings, rowNum, lastRowNum, log,
                    shown, preDb, outcomes >>

\* The source is exhausted.
parse_end ==
    /\ pc = "row"
    /\ rowNum = Len(csvFilenames[cur])
    /\ result' = "Success"
    /\ sink' = Append(sink, "end")
    /\ pc' = "finish"
    /\ UNCHANGED << dialogVars, storeVars, cur, tableName, fieldList, importToExistingTable,
                    nullValues, restorepointName, stmt, bindings, rowNum, lastRowNum, log,
                    shown, preDb, outcomes >>

\* importCsv_finish, mutated: a cancelled parse returns without rolling back.
importCsv_finish_cancelReturns ==
    /\ pc = "finish"
    /\ stmt' = "finalized"
    /\ LET lg == Append(log, Call("finalize", E, TRUE))
       IN  IF result # "Success"
           THEN IF result = "Cancelled"
                THEN /\ log' = lg
                     /\ Return("Cancelled", db)
                     /\ UNCHANGED << db, savepointList, shown >>
                ELSE /\ rollback(restorepointName, lastRowNum, "Inserting row failed", lg)
                     /\ Return("Failed", db')
           ELSE /\ log' = lg
                /\ Return("Success", db)
                /\ UNCHANGED << db, savepointList, shown >>
    /\ UNCHANGED << dialogVars, savepointSeq, tableName, fieldList, importToExistingTable,
                    nullValues, restorepointName, bindings, rowNum, lastRowNum, result, sink,
                    preDb >>

\* importCsv_finish, mutated: a parse that ended in an error shows the message
\* and returns without reverting to the savepoint.
importCsv_finish_errorKeepsRows ==
    /\ pc = "finish"
    /\ stmt' = "finalized"
    /\ LET lg == Append(log, Call("finalize", E, TRUE))
       IN  IF result # "Success"
           THEN IF result = "Cancelled"
                THEN /\ rollback(restorepointName, 0, "", lg)
                     /\ Return("Cancelled", db')
                ELSE /\ rollback_noRevert(restorepointName, lastRowNum, "Inserting row failed", lg)
                     /\ Return("Failed", db')
           ELSE /\ log' = lg
                /\ Return("Success", db)
                /\ UNCHANGED << db, savepointList, shown >>
    /\ UNCHANGED << dialogVars, savepointSeq, tableName, fieldList, importToExistingTable,
                    nullValues, restorepointName, bindings, rowNum, lastRowNum, result, sink,
                    preDb >>

\* importCsv_finish, mutated: the statement is not finalized when the parse
\* ended in an error.
importCsv_finish_leaksOnError ==
    /\ pc = "finish"
    /\ LET lg == Append(log, Call("finalize", E, TRUE))
       IN  IF result # "Success"
           THEN IF result = "Cancelled"
                THEN /\ stmt' = "finalized"
                     /\ rollback(restorepointName, 0, "", lg)
                     /\ Return("Cancelled", db')
                ELSE /\ stmt' = stmt
                     /\ rollback(restorepointName, lastRowNum, "Inserting row failed", log)
                     /\ Return("Failed", db')
           ELSE /\ stmt' = "finalized"
                /\ log' = lg
                /\ Return("Success", db)
                /\ UNCHANGED << db, savepointList, shown >>
    /\ UNCHANGED << dialogVars, savepointSeq, tableName, fieldList, importToExistingTable,
                    nullValues, restorepointName, bindings, rowNum, lastRowNum, result, sink,
                    preDb >>

\* Success? Otherwise roll the entire import back: silently if the parse was
\* cancelled, with an error message naming lastRowNum if it errored.
importCsv_finish ==
    /\ pc = "finish"
    /\ stmt' = "finalized"
    /\ LET lg == Append(log, Call("finalize", E, TRUE))
       IN  IF result # "Success"
           THEN IF result = "Cancelled"
                THEN /\ rollback(restorepointName, 0, "", lg)
                     /\ Return("Cancelled", db')
                ELSE /\ rollback(restorepointName, lastRowNum, "Inserting row failed", lg)
                     /\ Return("Failed", db')
           ELSE /\ log' = lg
                /\ Return("Success", db)
                /\ UNCHANGED << db, savepointList, shown >>
    /\ UNCHANGED << dialogVars, savepointSeq, tableName, fieldList, importToExistingTable,
                    nullValues, restorepointName, bindings, rowNum, lastRowNum, result, sink,
                    preDb >>

\* ---------------------------------------------------------------- specification
Next ==
    \/ \E selected \in BOOLEAN : updateSelection(selected)
    \/ \E item \in 1..nFiles : updateSelectedFilePreview(item)
    \/ matchSimilar
    \/ accept
    \/ acceptLoop
    \/ importCsv_analyse
    \/ importCsv_resolve
    \/ importCsv_savepoint
    \/ importCsv_table
    \/ importCsv_prepare
    \/ parseCSV
    \/ parse_row
    \/ parse_poll
    \/ parse_error
    \/ parse_end
    \/ importCsv_finish

Spec == Init /\ [][Next]_vars

\* ---------------------------------------------------------------- long files
\* The import of one file that is longer than the sample window of the
\* inference: SampleLimit rows of two fields, then rows of three fields.
NarrowRows == { << E, B >>, << ASp, C >> }
WideRow    == << E, B, C >>

LongFiles == { [i \in 1..(SampleLimit + k) |-> IF i > SampleLimit THEN WideRow ELSE base] :
                  k \in 1..MaxBeyond, base \in NarrowRows }

InitLong ==
    /\ \E file \in LongFiles : csvFilenames = << file >>
    /\ checkboxHeader \in BOOLEAN
    /\ checkBoxSeparateTables \in BOOLEAN
    /\ editName = baseName(1)
    /\ checkState = <<>>
    /\ userRole = <<>>
    /\ currentItem = 0
    /\ matchedWith = 0
    /\ \E t \in InitialTables :
          db = [n \in TableNames |-> IF n = baseName(1) THEN t ELSE NoTable]
    /\ savepointList = <<>>
    /\ savepointSeq = 0
    /\ pc = "dialog"
    /\ cur = 0
    /\ tableName = E
    /\ fieldList = <<>>
    /\ importToExistingTable = FALSE
    /\ nullValues = <<>>
    /\ restorepointName = E
    /\ stmt = "none"
    /\ bindings = <<>>
    /\ rowNum = 0
    /\ lastRowNum = 0
    /\ result = "none"
    /\ sink = <<>>
    /\ log = <<>>
    /\ shown = <<>>
    /\ preDb = db
    /\ outcomes = <<>>

NextLong ==
    \/ accept
    \/ importCsv_analyse
    \/ importCsv_resolve
    \/ importCsv_savepoint
    \/ importCsv_table
    \/ importCsv_prepare
    \/ parseCSV
    \/ parse_row
    \/ parse_poll
    \/ parse_error
    \/ parse_end
    \/ importCsv_finish

SpecLong == InitLong /\ [][NextLong]_vars

\* ---------------------------------------------------------------- inference, row by row
\* generateFieldList() taken one callback at a time: the tokenizer hands the
\* rows of the sample window to the callback, which extends the list.
MaxInferRows == 3   \* rows of a short file whose schema is inferred

HeaderRows == { << << "a", Backtick >>, << " ", ";" >> >>,
                << << "\"", "b", "'" >>, << "," >>, C >>,
                << E >>,
                << ASp, B >> }

ShortFiles == UNION { [1..k -> HeaderRows] : k \in 0..MaxInferRows }

\* Files around the length of the sample window: one-field rows and one wide
\* row at position p.
WindowFiles == { [i \in 1..len |-> IF i = p THEN WideRow ELSE << E >>] :
                    len \in (SampleLimit - 1)..(SampleLimit + MaxBeyond),
                    p \in { 1, SampleLimit, SampleLimit + 1 } }

InferFiles == ShortFiles \cup WindowFiles

InitInfer ==
    /\ \E file \in InferFiles : csvFilenames = << file >>
    /\ checkboxHeader \in BOOLEAN
    /\ checkBoxSeparateTables = FALSE
    /\ editName = baseName(1)
    /\ checkState = <<>>
    /\ userRole = <<>>
    /\ currentItem = 0
    /\ matchedWith = 0
    /\ db = [n \in TableNames |-> NoTable]
    /\ savepointList = <<>>
    /\ savepointSeq = 0
    /\ pc = "infer"
    /\ cur = 1
    /\ tableName = E
    /\ fieldList = <<>>
    /\ importToExistingTable = FALSE
    /\ nullValues = <<>>
    /\ restorepointName = E
    /\ stmt = "none"
    /\ bindings = <<>>
    /\ rowNum = 0
    /\ lastRowNum = 0
    /\ result = "none"
    /\ sink = <<>>
    /\ log = <<>>
    /\ shown = <<>>
    /\ preDb = db
    /\ outcomes = <<>>

\* One call of the inference callback, for the row with index rowNum.
infer_row ==
    /\ pc = "infer"
    /\ rowNum < Len(sampledRows(csvFilenames[cur], SampleLimit))
    /\ fieldList' = extendFieldList(fieldList, rowNum, csvFilenames[cur][rowNum + 1], checkboxHeader)
    /\ rowNum' = rowNum + 1
    /\ UNCHANGED << dialogVars, storeVars, histVars, outcomes, pc, cur, tableName,
                    importToExistingTable, nullValues, restorepointName, stmt, bindings,
                    lastRowNum, result >>

\* The bounded parse is over: generateFieldList() returns the list.
infer_end ==
    /\ pc = "infer"
    /\ rowNum = Len(sampledRows(csvFilenames[cur], SampleLimit))
    /\ pc' = "inferred"
    /\ UNCHANGED << dialogVars, storeVars, histVars, outcomes, cur, localVars >>

NextInfer ==
    \/ infer_row
    \/ infer_end

SpecInfer == InitInfer /\ [][NextInfer]_vars

\* ---------------------------------------------------------------- properties
\* An importCsv() call has returned and the next one has not started: log, sink,
\* shown, preDb and the locals are those of the call that returned.
returned == Len(outcomes) > 0 /\ pc \in { "loop", "import", "done" }
last == outcomes[Len(outcomes)]

\* importCsv() is past its analysis and has not returned.
importing == pc \in { "resolve", "savepoint", "table", "prepare", "parse", "row", "poll", "finish" }

called(op)     == \E k \in 1..Len(log) : log[k].op = op
succeeded(op)  == \E k \in 1..Len(log) : log[k].op = op /\ log[k].ok
failedCall(op) == \E k \in 1..Len(log) : log[k].op = op /\ ~log[k].ok

\* What a snapshot of the store observes: the tables and their row counts.
observable(d) == [n \in DOMAIN d |-> [exists |-> d[n].exists, count |-> Len(d[n].rows)]]

warnings == SelectSeq(shown, LAMBDA m : m.box = "warning")

C2_CancelRollsBack ==
    (returned /\ \E k \in 1..Len(sink) : sink[k] = "update_false")
        => /\ last.outcome = "Cancelled"
           /\ warnings = <<>>
           /\ log[Len(log)].op = "revertToSavepoint"
           /\ log[Len(log)].arg = restorepointName
           /\ db = preDb
           /\ (succeeded("createTable") => ~db[tableName].exists)

\* Cancelled after a row went into a table this run created.
C2_Witness ==
    /\ returned
    /\ \E k \in 1..Len(sink) : sink[k] = "update_false"
    /\ succeeded("createTable")
    /\ succeeded("step")

\* C3: when the insert of a row fails, no later row is bound or executed and the
\* failure reported carries the 1-based number of that row (rNum + 1 counting
\* every row of the file, or rNum counting the data rows under a header).
C3_FailureCarriesRowNumber ==
    (returned /\ failedCall("step"))
        => /\ log[Len(log) - 2].op = "step"
           /\ ~log[Len(log) - 2].ok
           /\ \E k \in 1..Len(shown) :
                 /\ shown[k].box = "warning"
                 /\ shown[k].nRecord >= 1
                 /\ \/ shown[k].nRecord = log[Len(log) - 2].arg + 1
                    \/ checkboxHeader /\ shown[k].nRecord = log[Len(log) - 2].arg

\* C4: a failed insert ends the import Failed with a non-empty message, and an
\* import ends Cancelled only when the progress sink reported cancellation.
C4_FailedInsertIsFailed ==
    /\ (returned /\ failedCall("step"))
          => /\ last.outcome = "Failed"
             /\ \E k \in 1..Len(shown) : shown[k].box = "warning" /\ shown[k].message # ""
    /\ (returned /\ last.outcome = "Cancelled")
          => \E k \in 1..Len(sink) : sink[k] = "update_false"

isPrefix(s, t) == Len(s) <= Len(t) /\ SubSeq(t, 1, Len(s)) = s

checkedItems == { i \in 1..nFiles : checkState[i] }

\* C5: in a batch the checked files are imported one after another in list
\* order; a file that fails or is cancelled removes no table and no row that a
\* file which succeeded earlier left in the store, and the checked files after
\* it are still imported.
C5_BatchFilesIndependent ==
    /\ \A j, k \in 1..Len(outcomes) : j < k => outcomes[j].file < outcomes[k].file
    /\ filePickerBlockVisible =>
          /\ \A k \in 1..Len(outcomes) : outcomes[k].file \in checkedItems
          /\ pc = "done" => { outcomes[k].file : k \in 1..Len(outcomes) } = checkedItems
    /\ \A j, k \in 1..Len(outcomes) :
          (j < k /\ outcomes[j].outcome = "Success"
                 /\ outcomes[k].outcome \in { "Failed", "Cancelled" })
             => \A n \in TableNames :
                   outcomes[j].dbAfter[n].exists
                      => /\ outcomes[k].dbAfter[n].exists
                         /\ isPrefix(outcomes[j].dbAfter[n].rows, outcomes[k].dbAfter[n].rows)

\* The second file of a batch was cancelled or failed after it had inserted a
\* row into the table the first file had filled successfully.
C5_Witness ==
    /\ pc = "done"
    /\ Len(outcomes) = 2
    /\ outcomes[1].outcome = "Success"
    /\ outcomes[2].outcome \in { "Failed", "Cancelled" }
    /\ importToExistingTable
    /\ succeeded("step")
    /\ ~outcomes[1].dbAfter[tableName].cols[1].isInteger
    /\ outcomes[1].dbAfter[tableName].rows # <<>>
    /\ db = outcomes[1].dbAfter

\* C6: when the store rejects the savepoint, the import fails with no table
\* created, no statement prepared, no row written and no rollback issued.
C6_RejectedSavepointNoRollback ==
    (returned /\ failedCall("setSavepoint"))
        => /\ last.outcome = "Failed"
           /\ ~called("createTable")
           /\ ~called("prepare")
           /\ ~called("bind")
           /\ ~called("step")
           /\ db = preDb
           /\ ~called("revertToSavepoint")

\* C7: in CreateNew mode a failed table creation makes the engine roll back to
\* the savepoint this run opened and return an error, with no statement
\* prepared and no row bound or executed.
C7_CreateFailureRollsBack ==
    ((returned \/ importing) /\ failedCall("createTable"))
        => /\ returned
           /\ last.outcome = "Failed"
           /\ \E k \in 1..Len(shown) : shown[k].box = "warning" /\ shown[k].message # ""
           /\ log[Len(log)].op = "revertToSavepoint"
           /\ log[Len(log)].arg = restorepointName
           /\ \E k \in 1..Len(log) :
                 log[k].op = "setSavepoint" /\ log[k].ok /\ log[k].arg = restorepointName
           /\ ~called("prepare")
           /\ ~called("bind")
           /\ ~called("step")

C7_Witness == returned /\ failedCall("createTable") /\ ~importToExistingTable

\* The target table exists and its column count differs from the field list's.
columnMismatch ==
    /\ fieldList # <<>>
    /\ preDb[tableName].exists
    /\ Len(preDb[tableName].cols) # Len(fieldList)

\* C8: if the target table exists with a column count other than the length of
\* the inferred field list, the import fails at once with an error: no
\* savepoint is opened, no table created, no statement prepared, no row inserted.
C8_ColumnMismatchFailsFast ==
    ((returned \/ importing) /\ columnMismatch)
        => /\ log = <<>>
           /\ stmt = "none"
           /\ db = preDb
           /\ pc = "resolve" \/ returned
           /\ returned => /\ last.outcome = "ColumnMismatch"
                          /\ warnings # <<>>

C8_Witness == returned /\ columnMismatch /\ last.outcome = "ColumnMismatch"

\* The compatibility of two field lists: equal length and pairwise equal names.
compatible(reference, candidate) ==
    /\ Len(reference) = Len(candidate)
    /\ \A k \in 1..Len(reference) : reference[k].name = candidate[k].name

\* C9: once matchSimilar has run with a reference file, every file whose field
\* list is compatible with the reference's is checked and every other file is
\* unchecked, whatever the check states were before.
C9_MatchSimilarSelectsCompatible ==
    matchedWith # 0 =>
        \A i \in 1..nFiles :
            checkState[i] = compatible(generateFieldList(csvFilenames[matchedWith], checkboxHeader),
                                       generateFieldList(csvFilenames[i], checkboxHeader))

\* The data row the callback handled last, when it inserted one.
insertedRow == pc = "poll" /\ ~(rowNum = 1 /\ checkboxHeader)

\* C10: the columns beyond the width of a row are inserted as NULL, whatever
\* earlier rows bound there: when the binding of a row starts no placeholder
\* of the statement is bound.
C10_ShortRowsPadWithNull ==
    /\ (pc = "row" /\ stmt = "prepared") => \A k \in 1..Len(bindings) : bindings[k] = Null
    /\ insertedRow =>
          LET data == csvFilenames[cur][rowNum]
              rows == db[tableName].rows
          IN  /\ Len(rows[Len(rows)]) = Len(fieldList)
              /\ \A k \in (Len(data) + 1)..Len(fieldList) : rows[Len(rows)][k] = Null

\* A row of two fields was inserted after a row that bound three.
C10_Witness ==
    /\ insertedRow
    /\ rowNum = 2
    /\ ~checkboxHeader
    /\ Len(csvFilenames[cur][1]) = 3
    /\ Len(csvFilenames[cur][2]) = 2
    /\ Len(db[tableName].rows) >= 2

\* The null values have been derived from the existing table's columns.
policyDerived == importToExistingTable /\ called("prepare")

\* C11: when appending to an existing table the null value policy has one entry
\* per column of that table, in column order: "0" for an integer NOT NULL
\* column, the null marker for an integer column that allows NULL, and the
\* empty string for every other column, NOT NULL or not.
C11_NullValuePolicy ==
    policyDerived =>
        LET cols == preDb[tableName].cols
        IN  /\ Len(nullValues) = Len(cols)
            /\ \A k \in 1..Len(cols) :
                  /\ (cols[k].isInteger /\ cols[k].notnull) => nullValues[k] = << "0" >>
                  /\ (cols[k].isInteger /\ ~cols[k].notnull) => nullValues[k] = Null
                  /\ ~cols[k].isInteger => nullValues[k] = E

\* The policy of a table with a nullable integer column, a NOT NULL text column
\* and a plain text column.
C11_Witness ==
    /\ policyDerived
    /\ Len(preDb[tableName].cols) = 3
    /\ preDb[tableName].cols[1].isInteger /\ ~preDb[tableName].cols[1].notnull
    /\ ~preDb[tableName].cols[2].isInteger /\ preDb[tableName].cols[2].notnull
    /\ nullValues = << Null, E, E >>

\* The indices bound by the run of bind calls that ends at log entry k.
RECURSIVE bindRun(_, _)
bindRun(lg, k) ==
    IF k = 0 THEN {}
    ELSE IF lg[k].op # "bind" THEN {}
    ELSE { lg[k].arg } \cup bindRun(lg, k - 1)

\* The policy decides field k of the row: an empty field of an existing table
\* with a policy entry at k.
byPolicy(data, k) == importToExistingTable /\ data[k] = E /\ k <= Len(nullValues)

\* C12: every field of every data row is bound by the rule: in AppendExisting
\* mode an empty field with a policy entry is bound to the entry's literal, or
\* left unbound (NULL) for the null marker; every other field is bound to its
\* raw text. An empty field for an INTEGER NOT NULL column is stored as "0".
C12_FieldsBoundByRule ==
    insertedRow =>
        LET data == csvFilenames[cur][rowNum]
            r    == db[tableName].rows[Len(db[tableName].rows)]
        IN  /\ \A k \in 1..Len(data) :
                  /\ k <= Len(r)
                  /\ r[k] = IF byPolicy(data, k) THEN nullValues[k] ELSE data[k]
                  /\ (byPolicy(data, k) /\ preDb[tableName].cols[k].isInteger
                                        /\ preDb[tableName].cols[k].notnull) => r[k] = << "0" >>
            /\ bindRun(log, Len(log) - 3)
                  = { k \in 1..Len(data) : ~(byPolicy(data, k) /\ nullValues[k] = Null) }

\* The widest of the first k rows of a file.
RECURSIVE maxWidth(_, _)
maxWidth(file, k) ==
    IF k = 0 THEN 0
    ELSE LET w == maxWidth(file, k - 1)
         IN  IF Len(file[k]) > w THEN Len(file[k]) ELSE w

inferredFile == csvFilenames[cur]
sampleSize   == IF Len(inferredFile) < 20 THEN Len(inferredFile) ELSE 20

\* C13: during inference the FieldList never shrinks from one sampled row to
\* the next (it only gains entries at its end), and after inference its length
\* is the maximum field count among the first min(n, 20) rows of the source.
C13_FieldListGrowsToMaxWidth ==
    /\ [][pc = "infer" => isPrefix(fieldList, fieldList')]_vars
    /\ [](pc = "inferred" =>
            /\ Len(fieldList) = maxWidth(inferredFile, sampleSize)
            /\ \A k \in 1..sampleSize : Len(fieldList) >= Len(inferredFile[k])
            /\ fieldList = generateFieldList(inferredFile, checkboxHeader))

\* A wide row followed by narrower rows has been sampled.
C13_Witness ==
    /\ pc = "inferred"
    /\ Len(inferredFile) >= 2
    /\ Len(inferredFile[1]) = 3
    /\ Len(inferredFile[Len(inferredFile)]) = 1
    /\ Len(fieldList) = 3

\* The characters a name must not contain.
Stripped == { Backtick, " ", "\"", "'", ",", ";" }
strip(s) == SelectSeq(s, LAMBDA ch : ch \notin Stripped)

fromHeader(N) ==
    /\ checkboxHeader
    /\ Len(inferredFile) >= 1
    /\ N <= Len(inferredFile[1])
    /\ strip(inferredFile[1][N]) # E

\* C14: every inferred name is non-empty and has none of the six characters;
\* the name at position N is the stripped row-0 value when the header is used,
\* row 0 has the position and the stripped value is non-empty, and field<N>
\* in every other case.
C14_InferredNames ==
    \A N \in 1..Len(fieldList) :
        LET name == fieldList[N].name
        IN  /\ name # E /\ name # Null
            /\ \A k \in 1..Len(name) : name[k] \notin Stripped
            /\ name = IF fromHeader(N) THEN strip(inferredFile[1][N])
                      ELSE << "f", "i", "e", "l", "d" >> \o number(N)

\* A header row with a name that strips to nothing, a name that keeps a
\* letter, and a later row that brings a new column.
C14_Witness ==
    /\ pc = "inferred"
    /\ checkboxHeader
    /\ Len(inferredFile) >= 2
    /\ Len(inferredFile[1]) = 2
    /\ inferredFile[1][1] # strip(inferredFile[1][1])
    /\ inferredFile[1][2] # E /\ strip(inferredFile[1][2]) = E
    /\ Len(fieldList) = 3
    /\ fieldList[1].name = << "a" >>
    /\ fieldList[2].name = << "f", "i", "e", "l", "d", "2" >>
    /\ fieldList[3].name = << "f", "i", "e", "l", "d", "3" >>

\* The import that has just returned was a success.
imported == returned /\ last.outcome = "Success"

importedFile == csvFilenames[last.file]
skipped      == IF checkboxHeader THEN 1 ELSE 0
rowsBefore   == IF preDb[tableName].exists THEN preDb[tableName].rows ELSE <<>>
steps        == SelectSeq(log, LAMBDA c : c.op = "step")

\* C15: a successful import of a source of n rows inserts n - 1 rows, row 0
\* not among them, if the first row is the header, and n rows if it is not;
\* the rows are inserted in file order, after the rows the table had.
C15_RowsInsertedInFileOrder ==
    imported =>
        LET n    == Len(importedFile)
            rows == db[tableName].rows
        IN  /\ Len(rows) = Len(rowsBefore) + (n - skipped)
            /\ isPrefix(rowsBefore, rows)
            /\ Len(steps) = n - skipped
            /\ \A j \in 1..(n - skipped) :
                  LET data   == importedFile[skipped + j]
                      stored == rows[Len(rowsBefore) + j]
                  IN  /\ steps[j].arg = skipped + j - 1
                      /\ steps[j].ok
                      /\ \A k \in 1..Len(data) : data[k] # E => stored[k] = data[k]

\* A file of a header and one data row has been imported.
C15_Witness ==
    /\ imported
    /\ checkboxHeader
    /\ Len(importedFile) = 2
    /\ Len(db[tableName].rows) = Len(rowsBefore) + 1

\* C16: the import of a source without rows returns at once as a no-op: it
\* opens no savepoint, looks up and creates no table, prepares no statement,
\* writes no row and reports no error.
C16_EmptySourceIsNoOp ==
    /\ importing => csvFilenames[cur] # <<>>
    /\ (returned /\ importedFile = <<>>)
          => /\ last.outcome = "EmptySource"
             /\ fieldList = <<>>
             /\ log = <<>>
             /\ shown = <<>>
             /\ stmt = "none"
             /\ db = preDb
             /\ last.dbAfter = preDb

\* The second file of a batch was empty, after a first file that was imported.
C16_Witness ==
    /\ returned
    /\ importedFile = <<>>
    /\ last.file = 2
    /\ outcomes[1].outcome = "Success"

\* The field list matchSimilar infers for item i.
headerOf(i) == generateFieldList(csvFilenames[i], checkboxHeader)

\* C17: the header compatibility matchSimilar computes is symmetric: for the
\* lists of any two files of the dialog it has the same value in either
\* direction.
C17_MatchingHeaderSymmetric ==
    pc = "dialog" =>
        \A i, j \in 1..nFiles :
            matchingHeader(headerOf(i), headerOf(j)) = matchingHeader(headerOf(j), headerOf(i))

\* matchSimilar has run from the second file, whose list is the beginning of
\* the first file's longer list.
C17_Witness ==
    /\ matchedWith = 2
    /\ Len(headerOf(2)) = 2
    /\ Len(headerOf(1)) = 3
    /\ equalNames(headerOf(2), headerOf(1))
    /\ ~checkState[1]

\* The import that has just returned had opened its savepoint.
savepointOpened == returned /\ succeeded("setSavepoint")

savepointOpen == savepointIndex(savepointList, restorepointName) # 0

\* The two ends of an import that opened a savepoint.
Committed  == savepointOpened /\ ~called("revertToSavepoint") /\ savepointOpen
RolledBack == /\ savepointOpened
              /\ log[Len(log)] = Call("revertToSavepoint", restorepointName, TRUE)
              /\ ~savepointOpen
              /\ db = preDb

\* The steps of one import, from one position of importCsv() to the next.
Transitions ==
    { << "import", "resolve" >>, << "resolve", "savepoint" >>, << "savepoint", "table" >>,
      << "table", "prepare" >>, << "prepare", "parse" >>, << "parse", "row" >>,
      << "row", "poll" >>, << "poll", "row" >>, << "row", "finish" >>, << "poll", "finish" >> }

\* The positions importCsv() returns from.
Exits == { "import", "resolve", "savepoint", "table", "finish" }

followsStateMachine ==
    pc' # pc =>
        \/ << pc, pc' >> \in Transitions
        \/ pc \in Exits /\ pc' \in { "loop", "done" } /\ Len(outcomes') = Len(outcomes) + 1
        \/ pc \in { "dialog", "loop" } /\ pc' \in { "loop", "import", "done" }

\* C18: an import goes through inference, resolution, savepoint, table, row
\* loop in this order and, once its savepoint is open, ends either committed
\* or rolled back: committed (no rollback, savepoint still open) only if the
\* row loop went through every row with every insert succeeding and without
\* cancellation, rolled back in every other case; and no table is created and
\* nothing is prepared, bound or inserted before the savepoint is open.
C18_ImportStateMachine ==
    /\ [][followsStateMachine]_vars
    /\ [](savepointOpened =>
            /\ Committed \/ RolledBack
            /\ Committed <=> last.outcome = "Success"
            /\ Committed =>
                  /\ result = "Success"
                  /\ rowNum = Len(importedFile)
                  /\ Len(steps) = Len(importedFile) - skipped
                  /\ \A j \in 1..Len(steps) : steps[j].ok
                  /\ \A k \in 1..Len(sink) : sink[k] # "update_false")
    /\ [](\A k \in 1..Len(log) :
            log[k].op \in { "createTable", "prepare", "bind", "step" }
                => log[1] = Call("setSavepoint", restorepointName, TRUE))
    /\ []((pc \in { "table", "prepare", "parse", "row", "poll", "finish" }) => savepointOpen)

\* An import into a new table was committed after two inserts.
C18_Witness ==
    /\ Committed
    /\ succeeded("createTable")
    /\ Len(steps) = 2
    /\ db # preDb

\* The positions of the calls of op in the log of the import.
callsOf(op) == { k \in 1..Len(log) : log[k].op = op }

statementUses == callsOf("bind") \cup callsOf("step") \cup callsOf("reset")
                    \cup callsOf("clear_bindings")

\* C19: the insert statement of a file is prepared at most once, with one
\* placeholder per FieldList entry, and serves every row; on every path that
\* prepared it, it is finalized exactly once, after its last use: nothing is
\* bound, executed, reset or cleared on a finalized statement.
C19_StatementPreparedAndFinalizedOnce ==
    /\ Cardinality(callsOf("prepare")) <= 1
    /\ \A k \in callsOf("prepare") :
          /\ log[k].arg = number(Len(fieldList))
          /\ \A u \in statementUses : k < u
    /\ stmt = "prepared" => Len(bindings) = Len(fieldList)
    /\ Cardinality(callsOf("finalize")) <= 1
    /\ \A f \in callsOf("finalize") :
          /\ callsOf("prepare") # {}
          /\ \A u \in statementUses : u < f
    /\ (returned /\ called("prepare"))
          => Cardinality(callsOf("finalize")) = 1 /\ stmt = "finalized"
    /\ stmt = "finalized" => pc \notin { "parse", "row", "poll", "finish" }

\* The source failed after a row had been inserted with the statement.
C19_Witness ==
    /\ returned
    /\ result = "Error"
    /\ succeeded("prepare")
    /\ succeeded("step")
    /\ stmt = "finalized"

\* The full parse of the import is over.
parsed == pc = "finish" \/ (returned /\ called("prepare"))

\* C20: only the full parse of the import drives a progress sink: it gets
\* start once, before any update, and end once, after the last update, however
\* the parse ends; the parses with a row limit (inference, preview, matching)
\* call no sink, so they have no checkpoint at which the user could cancel.
C20_ProgressOnlyForFullParse ==
    /\ pc \in { "dialog", "resolve", "savepoint", "table", "prepare", "parse" }
          => sink = <<>> /\ result = "none"
    /\ (returned /\ ~called("prepare")) => sink = <<>> /\ result = "none"
    /\ pc \in { "row", "poll" }
          => /\ sink # <<>>
             /\ sink[1] = "start"
             /\ \A k \in 2..Len(sink) : sink[k] = "update"
    /\ parsed
          => /\ Len(sink) >= 2
             /\ sink[1] = "start"
             /\ sink[Len(sink)] = "end"
             /\ \A k \in 2..(Len(sink) - 1) : sink[k] \in { "update", "update_false" }
             /\ \A k \in 2..(Len(sink) - 2) : sink[k] = "update"
             /\ result \in { "Success", "Error", "Cancelled" }

\* A full parse was cancelled at its second checkpoint, after a preview.
C20_Witness ==
    /\ returned
    /\ currentItem # 0
    /\ sink = << "start", "update", "update_false", "end" >>

\* C21: every bind of the row loop uses a placeholder index from 1 to the
\* number of placeholders of the prepared statement (the length of the
\* FieldList), also for rows beyond the sample window that are wider than every
\* sampled row, so that an inserted row holds every field of its source row.
C21_BindIndexInRange ==
    succeeded("prepare") =>
        /\ \A k \in callsOf("bind") :
              /\ log[k].arg \in 1..Len(fieldList)
              /\ log[k].ok
        /\ insertedRow =>
              Len(csvFilenames[cur][rowNum]) <= Len(db[tableName].rows[Len(db[tableName].rows)])

\* C22: if preparing the insert statement fails, the import of the file does
\* not end in success, whatever the source holds, be it only a header row: it
\* ends with the savepoint rolled back and the store as it was.
C22_PrepareFailureFailsImport ==
    (returned /\ failedCall("prepare")) =>
        /\ last.outcome # "Success"
        /\ log[Len(log)] = Call("revertToSavepoint", restorepointName, TRUE)
        /\ ~savepointOpen
        /\ db = preDb

====
